---- MODULE Spec2Model ----
(***************************************************************************)
(* git-istage-rs: the selectable status list (StatefulList, main.rs), the  *)
(* control loop that drives it (run_app, main.rs) and the mutations of a   *)
(* status entry (StatusEntry, status.rs).                                  *)
(*                                                                         *)
(* Three specifications share the variables:                               *)
(*   SpecList   the StatefulList API called in any order;                  *)
(*   SpecApp    run_app: one action per handled key event;                 *)
(*   SpecEntry  the operations of one StatusEntry against the command      *)
(*              executor and the filesystem.                               *)
(***************************************************************************)
EXTENDS Integers, Sequences, FiniteSets, TLC

(***************************************************************************)
(* Bounds of the model.                                                    *)
(***************************************************************************)
\* Longest entry list the Repository reports.
MaxLen == 3
\* Width of usize in the model.  The program runs with 64 bits; the model
\* keeps the arithmetic modulo 2^UsizeBits with a width TLC can enumerate.
UsizeBits == 4

UsizeMod == 2 ^ UsizeBits
UsizeMax == UsizeMod - 1

VARIABLES
    build,      \* "debug": overflow checks panic; "release": arithmetic wraps
    items,      \* StatefulList.items
    selected,   \* StatefulList.state.selected(): None or Some(i)
    panicked,   \* the thread panicked (the process is gone)
    running,    \* run_app is still in its loop
    result,     \* what run_app / the last entry operation returned
    calls,      \* the external calls issued by the last handled operation
    entry,      \* the StatusEntry the entry operations act on
    view,       \* the two-view controller: active view and its two lists
    last        \* the last operation and the state it started from

vars == <<build, items, selected, panicked, running, result, calls, entry, view, last>>

(***************************************************************************)
(* Option<usize> and usize arithmetic.                                     *)
(*                                                                         *)
(* ListState::select stores the index it is given and selected() returns   *)
(* it; nothing else in the program writes the selection.  Overflow of a    *)
(* usize operation is decided by the build: both outcomes are modelled.    *)
(***************************************************************************)
None == <<>>
Some(i) == <<i>>

Builds == {"debug", "release"}

\* a - b on usize: a debug build panics on underflow, a release build wraps.
SubPanics(a, b) == build = "debug" /\ a < b
Sub(a, b) == (a - b + UsizeMod) % UsizeMod
AddPanics(a, b) == build = "debug" /\ a + b > UsizeMax
Add(a, b) == (a + b) % UsizeMod

(***************************************************************************)
(* The entries a status query can report (main.rs StatusEntry).            *)
(***************************************************************************)
Entries ==
    { [old_file |-> <<>>, new_file |-> <<"a.txt">>, status |-> "Modified"],
      [old_file |-> <<"b.txt">>, new_file |-> <<"c.txt">>, status |-> "Renamed"],
      [old_file |-> <<>>, new_file |-> <<"d.txt">>, status |-> "Typechange"] }

RECURSIVE SeqsUpTo(_, _)
SeqsUpTo(S, n) ==
    IF n = 0 THEN {<<>>}
    ELSE LET shorter == SeqsUpTo(S, n - 1)
         IN  shorter \cup {Append(s, e) : s \in {t \in shorter : Len(t) = n - 1}, e \in S}

\* Every list a status query can return.
StatusLists == SeqsUpTo(Entries, MaxLen)

(***************************************************************************)
(* StatefulList (main.rs 140-206): the index each method selects.          *)
(* Each returns [panic, sel]: whether the method panicked, and the         *)
(* selection it stored otherwise.                                          *)
(***************************************************************************)
\* with_items: state.select(Some(0)) whatever the items are.
with_items_i(its) == Some(0)

\* set_items that leaves an absent selection absent.
set_items_i_keeps_none(sel, n) ==
    IF sel = None THEN [panic |-> FALSE, sel |-> None]
    ELSE IF SubPanics(n, 1) THEN [panic |-> TRUE, sel |-> sel]
    ELSE LET i == sel[1]
             m == Sub(n, 1)
         IN  [panic |-> FALSE, sel |-> IF i >= m THEN Some(m) ELSE Some(i)]

\* set_items: the match on state.selected(), n = self.items.len() after the
\* assignment of the new items.
set_items_i(sel, n) ==
    IF sel = None THEN [panic |-> FALSE, sel |-> Some(0)]
    ELSE IF SubPanics(n, 1) THEN [panic |-> TRUE, sel |-> sel]
    ELSE LET i == sel[1]
             m == Sub(n, 1)
         IN  [panic |-> FALSE, sel |-> IF i >= m THEN Some(m) ELSE Some(i)]

\* next without the wrap to 0: the cursor stays on the last index.
next_i_no_wrap(sel, n) ==
    IF sel = None THEN [panic |-> FALSE, sel |-> Some(0)]
    ELSE IF SubPanics(n, 1) THEN [panic |-> TRUE, sel |-> sel]
    ELSE LET i == sel[1]
             m == Sub(n, 1)
         IN  IF i >= m THEN [panic |-> FALSE, sel |-> Some(m)]
             ELSE [panic |-> FALSE, sel |-> Some(Add(i, 1))]

next_i(sel, n) ==
    IF sel = None THEN [panic |-> FALSE, sel |-> Some(0)]
    ELSE IF SubPanics(n, 1) THEN [panic |-> TRUE, sel |-> sel]
    ELSE LET i == sel[1]
             m == Sub(n, 1)
         IN  IF i >= m THEN [panic |-> FALSE, sel |-> Some(0)]
             ELSE IF AddPanics(i, 1) THEN [panic |-> TRUE, sel |-> sel]
             ELSE [panic |-> FALSE, sel |-> Some(Add(i, 1))]

\* previous that treats "no selection" like index 0 and wraps to the last index.
previous_i_none_wraps(sel, n) ==
    LET i == IF sel = None THEN 0 ELSE sel[1]
    IN  IF i = 0
        THEN IF SubPanics(n, 1) THEN [panic |-> TRUE, sel |-> sel]
             ELSE [panic |-> FALSE, sel |-> Some(Sub(n, 1))]
        ELSE [panic |-> FALSE, sel |-> Some(Sub(i, 1))]

previous_i(sel, n) ==
    IF sel = None THEN [panic |-> FALSE, sel |-> Some(0)]
    ELSE LET i == sel[1]
         IN  IF i = 0
             THEN IF SubPanics(n, 1) THEN [panic |-> TRUE, sel |-> sel]
                  ELSE [panic |-> FALSE, sel |-> Some(Sub(n, 1))]
             ELSE [panic |-> FALSE, sel |-> Some(Sub(i, 1))]

\* current: Some(&self.items[i]); the index panics when i is out of bounds.
current(sel, its) ==
    IF sel = None THEN [panic |-> FALSE, item |-> None]
    ELSE IF sel[1] >= Len(its) THEN [panic |-> TRUE, item |-> None]
    ELSE [panic |-> FALSE, item |-> Some(its[sel[1] + 1])]

Before(op) == [op |-> op, preSel |-> selected, preItems |-> items]

(***************************************************************************)
(* SpecList: the StatefulList methods, called in any order.                *)
(***************************************************************************)
InitList ==
    /\ view = None
    /\ build \in Builds
    /\ \E its \in StatusLists :
          /\ items = its
          /\ selected = with_items_i(its)
    /\ panicked = FALSE
    /\ running = TRUE
    /\ result = "none"
    /\ calls = <<>>
    /\ entry = None
    /\ last = [op |-> "with_items", preSel |-> None, preItems |-> <<>>]

set_items ==
    /\ ~panicked
    /\ \E its \in StatusLists :
          LET r == set_items_i(selected, Len(its))
          IN  /\ items' = its
              /\ selected' = r.sel
              /\ panicked' = r.panic
    /\ last' = Before("set_items")
    /\ UNCHANGED <<view, build, running, result, calls, entry>>

next ==
    /\ ~panicked
    /\ LET r == next_i(selected, Len(items))
       IN  /\ selected' = r.sel
           /\ panicked' = r.panic
    /\ last' = Before("next")
    /\ UNCHANGED <<view, build, items, running, result, calls, entry>>

previous ==
    /\ ~panicked
    /\ LET r == previous_i(selected, Len(items))
       IN  /\ selected' = r.sel
           /\ panicked' = r.panic
    /\ last' = Before("previous")
    /\ UNCHANGED <<view, build, items, running, result, calls, entry>>

unselect ==
    /\ ~panicked
    /\ selected' = None
    /\ last' = Before("unselect")
    /\ UNCHANGED <<view, build, items, panicked, running, result, calls, entry>>

NextList == set_items \/ next \/ previous \/ unselect

SpecList == InitList /\ [][NextList]_vars

Spec == SpecList

(***************************************************************************)
(* Properties of the list (SpecList).                                      *)
(***************************************************************************)
Min(a, b) == IF a <= b THEN a ELSE b

CursorValid == selected = None \/ selected[1] < Len(items)

\* C1: in every state the cursor is absent or an index in [0, len-1], and it
\* is absent whenever the entry list is empty.
C1_CursorInvariant ==
    ~panicked => /\ CursorValid
                 /\ (items = <<>> => selected = None)

\* C2: refresh(newEntries) with the cursor at i never fails and leaves the
\* cursor at min(i, len-1) when newEntries is non-empty, absent when empty.
C2_RefreshClamps ==
    (last.op = "set_items" /\ last.preSel # None) =>
        /\ ~panicked
        /\ selected = IF items = <<>> THEN None
                      ELSE Some(Min(last.preSel[1], Len(items) - 1))

C4_WithItemsCursor ==
    last.op = "with_items" =>
        selected = IF items = <<>> THEN None ELSE Some(0)

\* k applications of next to the selection sel of a list of n items.
RECURSIVE NextTimes(_, _, _)
NextTimes(sel, n, k) ==
    IF k = 0 THEN [panic |-> FALSE, sel |-> sel]
    ELSE LET r == next_i(sel, n)
         IN  IF r.panic THEN r ELSE NextTimes(r.sel, n, k - 1)

\* C5: on a non-empty list with a cursor, moveNext goes from the last index
\* to 0 and otherwise to i+1, movePrevious goes from 0 to the last index and
\* otherwise to i-1, and n moveNext calls on n entries return to the start.
C5_CyclicMovement ==
    /\ (last.op = "next" /\ last.preItems # <<>> /\ last.preSel # None) =>
          /\ ~panicked
          /\ items = last.preItems
          /\ selected = IF last.preSel[1] = Len(items) - 1 THEN Some(0)
                        ELSE Some(last.preSel[1] + 1)
    /\ (last.op = "previous" /\ last.preItems # <<>> /\ last.preSel # None) =>
          /\ ~panicked
          /\ items = last.preItems
          /\ selected = IF last.preSel[1] = 0 THEN Some(Len(items) - 1)
                        ELSE Some(last.preSel[1] - 1)
    /\ (~panicked /\ items # <<>> /\ selected # None) =>
          NextTimes(selected, Len(items), Len(items)) =
              [panic |-> FALSE, sel |-> selected]

C5_Witness ==
    /\ last.op = "next"
    /\ Len(items) >= 2
    /\ last.preSel = Some(Len(items) - 1)
    /\ selected = Some(0)

\* C6: moveNext and movePrevious on an empty list do not fail and leave the
\* cursor absent; on a single-element list they leave the cursor on index 0.
C6_MoveOnEmptyOrSingle ==
    (last.op \in {"next", "previous"}) =>
        /\ (last.preItems = <<>> => (~panicked /\ selected = None))
        /\ (Len(last.preItems) = 1 => (~panicked /\ selected = Some(0)))

\* C7: on a non-empty list whose cursor is absent, moveNext and movePrevious
\* both set the cursor to index 0.
C7_MoveFromAbsent ==
    (last.op \in {"next", "previous"} /\ last.preItems # <<>> /\ last.preSel = None) =>
        (~panicked /\ items = last.preItems /\ selected = Some(0))

C7_Witness ==
    /\ last.op = "previous"
    /\ last.preSel = None
    /\ Len(items) >= 2
    /\ selected = Some(0)

(***************************************************************************)
(* StatusEntry (status.rs) and its external calls.                         *)
(*                                                                         *)
(* A path is the sequence of its components; an absolute path starts with  *)
(* the root component "/".  An external call is recorded with the program, *)
(* the arguments before the paths, the paths, and how the call ended.      *)
(***************************************************************************)
Statuses ==
    { "Unmodified", "Added", "Deleted", "Modified", "Renamed", "Copied",
      "Ignored", "Untracked", "Conflicted", "Typechange", "Unreadable" }

\* impl From<Delta> for Status: each Delta to the Status of the same name.
StatusFromDelta(d) ==
    CASE d = "Unmodified" -> "Unmodified"
      [] d = "Added"      -> "Added"
      [] d = "Deleted"    -> "Deleted"
      [] d = "Modified"   -> "Modified"
      [] d = "Renamed"    -> "Renamed"
      [] d = "Copied"     -> "Copied"
      [] d = "Ignored"    -> "Ignored"
      [] d = "Untracked"  -> "Untracked"
      [] d = "Typechange" -> "Typechange"
      [] d = "Unreadable" -> "Unreadable"
      [] d = "Conflicted" -> "Conflicted"

\* Path::join: an absolute argument replaces the base.
PathJoin(base, p) == IF p # <<>> /\ p[1] = "/" THEN p ELSE base \o p

\* The raw change records of a status query: (old path, new path, delta).
RepoRoot == <<"/", "repo">>
OldPaths == {None, Some(<<"a.txt">>), Some(<<"b.txt">>)}
NewPaths == {Some(<<"a.txt">>), Some(<<"c.txt">>)}
Deltas == [old_path : OldPaths, new_path : NewPaths, status : Statuses]

\* impl From<(String, DiffDelta)> for StatusEntry: a missing path becomes
\* the empty string (unwrap_or_default).
\* The conversion that keeps the old path only for a rename or a copy.
StatusEntryFrom_old_for_rename_only(root, delta) ==
    [ repo_root |-> root,
      old_file  |-> IF delta.old_path = None
                       \/ StatusFromDelta(delta.status) \notin {"Renamed", "Copied"}
                    THEN <<>> ELSE delta.old_path[1],
      new_file  |-> IF delta.new_path = None THEN <<>> ELSE delta.new_path[1],
      status    |-> StatusFromDelta(delta.status) ]

StatusEntryFrom(root, delta) ==
    [ repo_root |-> root,
      old_file  |-> IF delta.old_path = None THEN <<>> ELSE delta.old_path[1],
      new_file  |-> IF delta.new_path = None THEN <<>> ELSE delta.new_path[1],
      status    |-> StatusFromDelta(delta.status) ]

abs_path_old(e) == PathJoin(e.repo_root, e.old_file)
abs_path_new(e) == PathJoin(e.repo_root, e.new_file)

\* How process::Command::output() can end: the command ran and exited 0,
\* ran and exited non-zero (still Ok(Output)), or could not be spawned (Err).
CmdOutcomes == {"ok", "nonzero", "io_err"}
\* How fs::remove_file can end.
FsOutcomes == {"ok", "io_err"}

Git(args, paths, out) ==
    [prog |-> "git", args |-> args, paths |-> paths, outcome |-> out]
RemoveFile(path, out) ==
    [prog |-> "fs::remove_file", args |-> <<>>, paths |-> <<path>>, outcome |-> out]

\* cmd.output()?; Ok(()): only a failure to run the command is an error.
OutputResult(out) == IF out = "io_err" THEN "Err" ELSE "Ok"

\* stage_to_index that stages the new path alone, also for a rename.
stage_to_index_new_only(e, out) ==
    [ calls  |-> <<Git(<<"add">>, <<abs_path_new(e)>>, out)>>,
      result |-> OutputResult(out) ]

stage_to_index(e, out) ==
    [ calls  |-> <<Git(<<"add">>,
                       IF e.status = "Renamed"
                       THEN <<abs_path_old(e), abs_path_new(e)>>
                       ELSE <<abs_path_new(e)>>,
                       out)>>,
      result |-> OutputResult(out) ]

\* reset_from_workdir whose rename arm checks out the new path.
reset_from_workdir_checkout_new(e, fsOut, out) ==
    CASE e.status = "Untracked" ->
            [ calls  |-> <<RemoveFile(abs_path_new(e), fsOut)>>,
              result |-> IF fsOut = "io_err" THEN "Err" ELSE "Ok" ]
      [] e.status = "Renamed" ->
            IF fsOut = "io_err"
            THEN [ calls  |-> <<RemoveFile(abs_path_new(e), fsOut)>>,
                   result |-> "Err" ]
            ELSE [ calls  |-> << RemoveFile(abs_path_new(e), fsOut),
                                 Git(<<"checkout">>, <<abs_path_new(e)>>, out) >>,
                   result |-> OutputResult(out) ]
      [] OTHER ->
            [ calls  |-> <<Git(<<"checkout">>, <<abs_path_new(e)>>, out)>>,
              result |-> OutputResult(out) ]

\* reset_from_workdir whose rename arm drops the `?` after remove_file.
reset_from_workdir_ignore_remove_error(e, fsOut, out) ==
    CASE e.status = "Untracked" ->
            [ calls  |-> <<RemoveFile(abs_path_new(e), fsOut)>>,
              result |-> IF fsOut = "io_err" THEN "Err" ELSE "Ok" ]
      [] e.status = "Renamed" ->
            [ calls  |-> << RemoveFile(abs_path_new(e), fsOut),
                            Git(<<"checkout">>, <<abs_path_old(e)>>, out) >>,
              result |-> OutputResult(out) ]
      [] OTHER ->
            [ calls  |-> <<Git(<<"checkout">>, <<abs_path_new(e)>>, out)>>,
              result |-> OutputResult(out) ]

\* fsOut: how remove_file ends (when called); out: how git ends (when called).
reset_from_workdir(e, fsOut, out) ==
    CASE e.status = "Untracked" ->
            [ calls  |-> <<RemoveFile(abs_path_new(e), fsOut)>>,
              result |-> IF fsOut = "io_err" THEN "Err" ELSE "Ok" ]
      [] e.status = "Renamed" ->
            IF fsOut = "io_err"
            THEN [ calls  |-> <<RemoveFile(abs_path_new(e), fsOut)>>,
                   result |-> "Err" ]
            ELSE [ calls  |-> << RemoveFile(abs_path_new(e), fsOut),
                                 Git(<<"checkout">>, <<abs_path_old(e)>>, out) >>,
                   result |-> OutputResult(out) ]
      [] OTHER ->
            [ calls  |-> <<Git(<<"checkout">>, <<abs_path_new(e)>>, out)>>,
              result |-> OutputResult(out) ]

\* unstage_to_workdir without the arm for a staged deletion.
unstage_to_workdir_always_reset(e, out) ==
    [ calls  |-> <<Git(<<"reset">>, <<abs_path_new(e)>>, out)>>,
      result |-> OutputResult(out) ]

unstage_to_workdir(e, out) ==
    [ calls  |-> <<IF e.status = "Deleted"
                   THEN Git(<<"restore", "--staged">>, <<abs_path_new(e)>>, out)
                   ELSE Git(<<"reset">>, <<abs_path_new(e)>>, out)>>,
      result |-> OutputResult(out) ]

\* main.rs: StatusEntry::add_to_git and the free function add_to_git.
add_to_git(e, out) ==
    [ calls  |-> <<Git(<<"add">>,
                       IF e.status = "Renamed"
                       THEN <<e.old_file, e.new_file>>
                       ELSE <<e.new_file>>,
                       out)>>,
      result |-> OutputResult(out) ]

(***************************************************************************)
(* SpecEntry: the operations of one StatusEntry, in any order.             *)
(***************************************************************************)
InitEntry ==
    /\ view = None
    /\ build \in Builds
    /\ items = <<>>
    /\ selected = None
    /\ panicked = FALSE
    /\ running = TRUE
    /\ result = "none"
    /\ calls = <<>>
    /\ \E delta \in Deltas :
          /\ entry = StatusEntryFrom(RepoRoot, delta)
          /\ last = [op |-> "from", preSel |-> None, preItems |-> <<>>,
                     delta |-> delta]

\* A refresh builds the entry anew from the raw record of the query.
From ==
    /\ \E delta \in Deltas :
          /\ entry' = StatusEntryFrom(RepoRoot, delta)
          /\ last' = [op |-> "from", preSel |-> selected, preItems |-> items,
                      delta |-> delta]
    /\ calls' = <<>>
    /\ result' = "none"
    /\ UNCHANGED <<view, build, items, selected, panicked, running>>

StageToIndex ==
    /\ \E out \in CmdOutcomes :
          LET r == stage_to_index(entry, out)
          IN  calls' = r.calls /\ result' = r.result
    /\ last' = Before("stage_to_index")
    /\ UNCHANGED <<view, build, items, selected, panicked, running, entry>>

ResetFromWorkdir ==
    /\ \E fsOut \in FsOutcomes, out \in CmdOutcomes :
          LET r == reset_from_workdir(entry, fsOut, out)
          IN  calls' = r.calls /\ result' = r.result
    /\ last' = Before("reset_from_workdir")
    /\ UNCHANGED <<view, build, items, selected, panicked, running, entry>>

UnstageToWorkdir ==
    /\ \E out \in CmdOutcomes :
          LET r == unstage_to_workdir(entry, out)
          IN  calls' = r.calls /\ result' = r.result
    /\ last' = Before("unstage_to_workdir")
    /\ UNCHANGED <<view, build, items, selected, panicked, running, entry>>

AddToGit ==
    /\ \E out \in CmdOutcomes :
          LET r == add_to_git(entry, out)
          IN  calls' = r.calls /\ result' = r.result
    /\ last' = Before("add_to_git")
    /\ UNCHANGED <<view, build, items, selected, panicked, running, entry>>

NextEntry == From \/ StageToIndex \/ ResetFromWorkdir \/ UnstageToWorkdir \/ AddToGit

SpecEntry == InitEntry /\ [][NextEntry]_vars

(***************************************************************************)
(* Properties of the entry operations (SpecEntry).                         *)
(***************************************************************************)
\* C9: stageToIndex issues exactly one add call and nothing else; its paths
\* are (oldPath, newPath) in that order for a Renamed entry and newPath alone
\* for every other kind (status.rs resolves them against the repository
\* root, main.rs passes them as reported).
C9_StageArguments ==
    /\ last.op = "stage_to_index" =>
          /\ Len(calls) = 1
          /\ calls[1].prog = "git"
          /\ calls[1].args = <<"add">>
          /\ calls[1].paths =
                IF entry.status = "Renamed"
                THEN <<RepoRoot \o entry.old_file, RepoRoot \o entry.new_file>>
                ELSE <<RepoRoot \o entry.new_file>>
    /\ last.op = "add_to_git" =>
          /\ Len(calls) = 1
          /\ calls[1].prog = "git"
          /\ calls[1].args = <<"add">>
          /\ calls[1].paths =
                IF entry.status = "Renamed"
                THEN <<entry.old_file, entry.new_file>>
                ELSE <<entry.new_file>>

C9_Witness ==
    /\ last.op = "stage_to_index"
    /\ entry.status = "Renamed"
    /\ entry.old_file = <<"b.txt">>
    /\ entry.new_file = <<"c.txt">>
    /\ Len(calls[1].paths) = 2

\* C10: discard chooses its effects by kind.  Untracked: newPath is deleted
\* and no version-control command is issued.  Renamed: newPath is deleted
\* first and oldPath is checked out after that deletion.  Every other kind:
\* newPath is checked out and nothing is deleted.
C10_DiscardByKind ==
    last.op = "reset_from_workdir" =>
        CASE entry.status = "Untracked" ->
                /\ Len(calls) = 1
                /\ calls[1].prog = "fs::remove_file"
                /\ calls[1].paths = <<RepoRoot \o entry.new_file>>
          [] entry.status = "Renamed" ->
                /\ Len(calls) \in {1, 2}
                /\ calls[1].prog = "fs::remove_file"
                /\ calls[1].paths = <<RepoRoot \o entry.new_file>>
                /\ (calls[1].outcome = "ok") = (Len(calls) = 2)
                /\ Len(calls) = 2 =>
                      /\ calls[2].prog = "git"
                      /\ calls[2].args = <<"checkout">>
                      /\ calls[2].paths = <<RepoRoot \o entry.old_file>>
          [] OTHER ->
                /\ Len(calls) = 1
                /\ calls[1].prog = "git"
                /\ calls[1].args = <<"checkout">>
                /\ calls[1].paths = <<RepoRoot \o entry.new_file>>

C10_Witness ==
    /\ last.op = "reset_from_workdir"
    /\ entry.status = "Renamed"
    /\ entry.old_file = <<"b.txt">>
    /\ Len(calls) = 2
    /\ calls[2].paths = <<RepoRoot \o <<"b.txt">>>>

\* C11: unstageToWorkdir issues exactly one executor call, on newPath, and
\* no filesystem call: restore --staged for a Deleted entry, reset for every
\* other kind (oldPath is never passed, also for a rename).
C11_UnstageByKind ==
    last.op = "unstage_to_workdir" =>
        /\ Len(calls) = 1
        /\ calls[1].prog = "git"
        /\ calls[1].paths = <<RepoRoot \o entry.new_file>>
        /\ calls[1].args = IF entry.status = "Deleted"
                           THEN <<"restore", "--staged">>
                           ELSE <<"reset">>

C11_Witness ==
    /\ last.op = "unstage_to_workdir"
    /\ entry.status = "Deleted"
    /\ calls[1].args = <<"restore", "--staged">>
    /\ calls[1].paths = <<RepoRoot \o entry.new_file>>

\* C14: a mutation operation returns a failure whenever a verb it invoked
\* failed, also when the command ran and reported failure, and it invokes
\* each verb at most once.
C14_FailurePropagates ==
    (last.op \in {"stage_to_index", "reset_from_workdir", "unstage_to_workdir", "add_to_git"}) =>
        /\ (\E i \in 1..Len(calls) : calls[i].outcome # "ok") => result = "Err"
        /\ \A i, j \in 1..Len(calls) : i # j => calls[i].prog # calls[j].prog

\* C17 as stated: an entry built from a raw record has an empty oldPath
\* unless its kind is Renamed or Copied.
C17_OldPathOnlyForRename ==
    (last.op = "from" /\ entry.status \notin {"Renamed", "Copied"}) =>
        entry.old_file = <<>>

\* C17 amended: an entry built from a raw record has the old path and the
\* new path the record reported, whatever its kind, and an empty path where
\* the record reported none.
C17_PathsCopiedFromRecord ==
    last.op = "from" =>
        /\ entry.old_file = IF last.delta.old_path = None THEN <<>>
                            ELSE last.delta.old_path[1]
        /\ entry.new_file = IF last.delta.new_path = None THEN <<>>
                            ELSE last.delta.new_path[1]
        /\ entry.status = last.delta.status

C17_Witness ==
    /\ last.op = "from"
    /\ entry.status = "Modified"
    /\ last.delta.old_path = Some(<<"a.txt">>)
    /\ entry.old_file = <<"a.txt">>
    /\ entry.new_file = <<"a.txt">>

\* What the calls of the last operation did to the working tree.
NewDeletedAt(i) ==
    /\ i \in 1..Len(calls)
    /\ calls[i].prog = "fs::remove_file"
    /\ calls[i].paths = <<RepoRoot \o entry.new_file>>
    /\ calls[i].outcome = "ok"
OldCheckoutAt(i) ==
    /\ i \in 1..Len(calls)
    /\ calls[i].prog = "git"
    /\ calls[i].args = <<"checkout">>
    /\ calls[i].paths = <<RepoRoot \o entry.old_file>>

\* C20: discarding a Renamed entry: when deleting newPath fails the
\* operation returns the failure and no checkout is issued; a checkout of
\* oldPath is issued only after newPath was deleted successfully.
C20_RenameDiscardPartialStates ==
    (last.op = "reset_from_workdir" /\ entry.status = "Renamed") =>
        /\ calls[1].prog = "fs::remove_file"
        /\ calls[1].outcome = "io_err" =>
              /\ result = "Err"
              /\ \A i \in 1..Len(calls) : calls[i].prog # "git"
        /\ \A i \in 1..Len(calls) :
              calls[i].prog = "git" =>
                  /\ OldCheckoutAt(i)
                  /\ \E j \in 1..(i - 1) : NewDeletedAt(j)

C20_Witness ==
    /\ last.op = "reset_from_workdir"
    /\ entry.status = "Renamed"
    /\ entry.old_file = <<"b.txt">>
    /\ calls = <<RemoveFile(RepoRoot \o entry.new_file, "io_err")>>
    /\ result = "Err"

(***************************************************************************)
(* Display: glyph, color, pretty_string and the draw of one loop pass.     *)
(* Each returns [panic, ...]: todo!() panics when it is reached.           *)
(***************************************************************************)
\* impl From<Status> for char
glyph(st) ==
    CASE st = "Unmodified" -> [panic |-> FALSE, val |-> " "]
      [] st = "Added"      -> [panic |-> FALSE, val |-> "A"]
      [] st = "Deleted"    -> [panic |-> FALSE, val |-> "D"]
      [] st = "Modified"   -> [panic |-> FALSE, val |-> "M"]
      [] st = "Renamed"    -> [panic |-> FALSE, val |-> "R"]
      [] st = "Copied"     -> [panic |-> FALSE, val |-> "C"]
      [] st = "Ignored"    -> [panic |-> FALSE, val |-> "!"]
      [] st = "Untracked"  -> [panic |-> FALSE, val |-> "U"]
      [] st = "Conflicted" -> [panic |-> FALSE, val |-> "X"]
      [] st = "Typechange" -> [panic |-> TRUE, val |-> ""]
      [] st = "Unreadable" -> [panic |-> TRUE, val |-> ""]

\* impl From<Status> for Color
color(st) ==
    CASE st = "Unmodified" -> [panic |-> FALSE, val |-> "White"]
      [] st = "Added"      -> [panic |-> FALSE, val |-> "LightGreen"]
      [] st = "Deleted"    -> [panic |-> FALSE, val |-> "Red"]
      [] st = "Modified"   -> [panic |-> FALSE, val |-> "Yellow"]
      [] st = "Renamed"    -> [panic |-> FALSE, val |-> "Cyan"]
      [] st = "Copied"     -> [panic |-> FALSE, val |-> "LightBlue"]
      [] st = "Ignored"    -> [panic |-> FALSE, val |-> "Gray"]
      [] st = "Untracked"  -> [panic |-> FALSE, val |-> "Green"]
      [] st = "Conflicted" -> [panic |-> FALSE, val |-> "LightRed"]
      [] st = "Typechange" -> [panic |-> TRUE, val |-> ""]
      [] st = "Unreadable" -> [panic |-> TRUE, val |-> ""]

\* pretty_string: the parts format! joins, in order.
pretty_string(e) ==
    LET g == glyph(e.status)
    IN  IF g.panic THEN [panic |-> TRUE, val |-> <<>>]
        ELSE IF e.status = "Renamed"
        THEN [panic |-> FALSE, val |-> <<g.val, " ", e.old_file, " -> ", e.new_file>>]
        ELSE [panic |-> FALSE, val |-> <<g.val, " ", e.new_file>>]

\* ui: every item is formatted and colored; the first todo!() reached panics.
ui(its) ==
    [panic |-> \E i \in 1..Len(its) :
                  pretty_string(its[i]).panic \/ color(its[i].status).panic]

(***************************************************************************)
(* SpecApp: run_app (main.rs 220-255), one action per handled key event.   *)
(* A panic ends the process; an Err from `?` ends run_app with that error. *)
(* Every pass of the loop draws the list before it reads an event, so an   *)
(* event is handled only in a state whose draw returned.                   *)
(***************************************************************************)
\* get_file_statuses as the handler sees it: the comparison it asked for
\* and the list it got back, or an error.  main.rs reads index_to_workdir(),
\* the comparison git.rs names FileStatusKind::Unstaged.
Query(kind, out, res) ==
    [ prog |-> "get_file_statuses", args |-> <<kind>>, paths |-> <<>>,
      outcome |-> out, entries |-> res ]

InitApp ==
    /\ view = None
    /\ build \in Builds
    /\ \E its \in StatusLists :
          /\ items = its
          /\ selected = with_items_i(its)
    /\ panicked = FALSE
    /\ running = TRUE
    /\ result = "none"
    /\ calls = <<>>
    /\ entry = None
    /\ last = [op |-> "App::new", preSel |-> None, preItems |-> <<>>]

Handling == running /\ ~panicked /\ ~ui(items).panic

\* terminal.draw(|f| ui(f, &mut app)) of a list whose draw panics.
Draw ==
    /\ running /\ ~panicked
    /\ ui(items).panic
    /\ panicked' = TRUE
    /\ calls' = <<>>
    /\ last' = Before("ui")
    /\ UNCHANGED <<view, build, items, selected, running, result, entry>>

\* KeyCode::Char('q') => return Ok(())
KeyQ ==
    /\ Handling
    /\ running' = FALSE
    /\ result' = "Ok"
    /\ calls' = <<>>
    /\ last' = Before("key_q")
    /\ UNCHANGED <<view, build, items, selected, panicked, entry>>

\* The stage handler with the refresh issued before the mutation.
KeyS_refresh_first ==
    /\ Handling
    /\ last' = Before("key_s")
    /\ LET c == current(selected, items)
       IN  IF c.panic
           THEN /\ panicked' = TRUE
                /\ calls' = <<>>
                /\ UNCHANGED <<items, selected, running, result>>
           ELSE IF c.item = None
           THEN /\ calls' = <<>>
                /\ UNCHANGED <<items, selected, panicked, running, result>>
           ELSE \E out \in CmdOutcomes, its \in StatusLists :
                  LET a == add_to_git(c.item[1], out)
                      r == set_items_i(selected, Len(its))
                  IN  /\ calls' = <<Query("Unstaged", "ok", its)>> \o a.calls
                      /\ items' = its
                      /\ selected' = r.sel
                      /\ panicked' = r.panic
                      /\ running' = (a.result = "Ok")
                      /\ result' = IF a.result = "Ok" THEN result ELSE "Err"
    /\ UNCHANGED <<view, build, entry>>

\* KeyCode::Char('s'): if let Some(item) = current() { add_to_git()?;
\* set_items(get_file_statuses()?) }
KeyS ==
    /\ Handling
    /\ last' = Before("key_s")
    /\ LET c == current(selected, items)
       IN  IF c.panic
           THEN /\ panicked' = TRUE
                /\ calls' = <<>>
                /\ UNCHANGED <<items, selected, running, result>>
           ELSE IF c.item = None
           THEN /\ calls' = <<>>
                /\ UNCHANGED <<items, selected, panicked, running, result>>
           ELSE \E out \in CmdOutcomes :
                  LET a == add_to_git(c.item[1], out)
                  IN  IF a.result = "Err"
                      THEN /\ calls' = a.calls
                           /\ running' = FALSE
                           /\ result' = "Err"
                           /\ UNCHANGED <<items, selected, panicked>>
                      ELSE \/ /\ calls' = Append(a.calls, Query("Unstaged", "io_err", <<>>))
                              /\ running' = FALSE
                              /\ result' = "Err"
                              /\ UNCHANGED <<items, selected, panicked>>
                           \/ \E its \in StatusLists :
                                LET r == set_items_i(selected, Len(its))
                                IN  /\ calls' = Append(a.calls, Query("Unstaged", "ok", its))
                                    /\ items' = its
                                    /\ selected' = r.sel
                                    /\ panicked' = r.panic
                                    /\ UNCHANGED <<running, result>>
    /\ UNCHANGED <<view, build, entry>>

\* KeyCode::Down => app.items.next()
KeyDown ==
    /\ Handling
    /\ LET r == next_i(selected, Len(items))
       IN  /\ selected' = r.sel
           /\ panicked' = r.panic
    /\ calls' = <<>>
    /\ last' = Before("key_down")
    /\ UNCHANGED <<view, build, items, running, result, entry>>

\* KeyCode::Up => app.items.previous()
KeyUp ==
    /\ Handling
    /\ LET r == previous_i(selected, Len(items))
       IN  /\ selected' = r.sel
           /\ panicked' = r.panic
    /\ calls' = <<>>
    /\ last' = Before("key_up")
    /\ UNCHANGED <<view, build, items, running, result, entry>>

\* KeyCode::Left => app.items.unselect()
KeyLeft ==
    /\ Handling
    /\ selected' = None
    /\ calls' = <<>>
    /\ last' = Before("key_left")
    /\ UNCHANGED <<view, build, items, panicked, running, result, entry>>

\* _ => {}
KeyOther ==
    /\ Handling
    /\ calls' = <<>>
    /\ last' = Before("key_other")
    /\ UNCHANGED <<view, build, items, selected, panicked, running, result, entry>>

NextApp == Draw \/ KeyQ \/ KeyS \/ KeyDown \/ KeyUp \/ KeyLeft \/ KeyOther

SpecApp == InitApp /\ [][NextApp]_vars

(***************************************************************************)
(* Properties of the control loop (SpecApp).                               *)
(***************************************************************************)
\* C8: when the list is empty or has no selection, a stage action is a
\* no-op: current() returns nothing without failing, no executor call and no
\* Repository query is issued, the list and the cursor are unchanged, and
\* the loop continues without an error.
C8_StageWithoutCurrentIsNoOp ==
    (last.op = "key_s" /\ (last.preItems = <<>> \/ last.preSel = None)) =>
        /\ ~panicked
        /\ calls = <<>>
        /\ items = last.preItems
        /\ selected = last.preSel
        /\ running
        /\ result = "none"

\* The entry under the cursor when the last event arrived.
PreCurrent == last.preItems[last.preSel[1] + 1]
HadCurrent == last.preSel # None /\ last.preSel[1] < Len(last.preItems)

C13_MutationFailureNonFatal ==
    (last.op = "key_s" /\ HadCurrent /\ calls[1].outcome # "ok") =>
        /\ Len(calls) = 2
        /\ calls[2].prog = "get_file_statuses"
        /\ (calls[2].outcome = "ok" /\ calls[2].entries # <<>>) =>
              /\ running
              /\ result = "none"
              /\ items = calls[2].entries
              /\ selected = Some(Min(last.preSel[1], Len(items) - 1))

\* C15: when the Repository query of a refresh fails, the entries and the
\* cursor are as they were before the refresh and the loop continues.
C15_QueryFailureKeepsList ==
    (last.op = "key_s" /\ Len(calls) = 2 /\ calls[2].outcome = "io_err") =>
        /\ items = last.preItems
        /\ selected = last.preSel
        /\ ~panicked
        /\ running
        /\ result = "none"

\* C16: glyph and color lookup return a value for every kind, so drawing a
\* list never aborts the program.
C16_RenderingNeverAborts == last.op = "ui" => ~panicked

(***************************************************************************)
(* SpecView: the two-view controller.  Its dispatch (which request acts in *)
(* which view, and what a switch refreshes) is the specification's; the    *)
(* lists are StatefulList, the mutations are the StatusEntry operations    *)
(* and the queries are git.rs get_file_statuses(kind).                     *)
(***************************************************************************)
\* Longest list of a view.
ViewMaxLen == 1

\* The comparison get_file_statuses(kind) reads its records from:
\* st.index_to_workdir() for Unstaged, st.head_to_index() for Staged.
Comparison_swapped(kind) ==
    IF kind = "Unstaged" THEN "IndexVsHead" ELSE "WorkdirVsIndex"

Comparison(kind) ==
    IF kind = "Unstaged" THEN "WorkdirVsIndex" ELSE "IndexVsHead"

ViewEntries ==
    { StatusEntryFrom(RepoRoot, d) : d \in
        { [old_path |-> Some(<<"a.txt">>), new_path |-> Some(<<"a.txt">>), status |-> "Modified"],
          [old_path |-> Some(<<"b.txt">>), new_path |-> Some(<<"c.txt">>), status |-> "Renamed"] } }

\* Every list get_file_statuses(kind) can return.
ViewLists == SeqsUpTo(ViewEntries, ViewMaxLen)

Views == {"Unstaged", "Staged"}

\* A list of the controller: a StatefulList and the comparison its entries
\* were read from.
NewList(kind, its) ==
    [items |-> its, selected |-> with_items_i(its), origin |-> Comparison(kind)]

ListOf(v, name) == IF name = "Unstaged" THEN v.unstaged ELSE v.staged
WithList(v, name, l) ==
    IF name = "Unstaged" THEN [v EXCEPT !.unstaged = l] ELSE [v EXCEPT !.staged = l]

\* The last request: what was asked, the mutation invoked for it (if any)
\* and the comparison the entry it was invoked on came from.
Asked(op, verb, origin) ==
    [op |-> op, preSel |-> selected, preItems |-> items, verb |-> verb, origin |-> origin]

InitView ==
    /\ build \in Builds
    /\ items = <<>>
    /\ selected = None
    /\ panicked = FALSE
    /\ running = TRUE
    /\ result = "none"
    /\ calls = <<>>
    /\ entry = None
    /\ \E u \in ViewLists, st \in ViewLists :
          view = [ active   |-> "Unstaged",
                   unstaged |-> NewList("Unstaged", u),
                   staged   |-> NewList("Staged", st) ]
    /\ last = Asked("new", "none", "none")

\* Refresh of the list `name` after the calls `done`: a failed query leaves
\* the list stale, a successful one goes through set_items.  `activate` is
\* the view that is active once the refresh returned.
RefreshList(name, done, activate) ==
    \/ /\ calls' = Append(done, Query(name, "io_err", <<>>))
       /\ view' = [view EXCEPT !.active = activate]
       /\ UNCHANGED panicked
    \/ \E its \in ViewLists :
          LET l == ListOf(view, name)
              r == set_items_i(l.selected, Len(its))
              refreshed == [items |-> its, selected |-> r.sel, origin |-> Comparison(name)]
          IN  /\ calls' = Append(done, Query(name, "ok", its))
              /\ panicked' = r.panic
              /\ view' = [WithList(view, name, refreshed) EXCEPT
                             !.active = IF r.panic THEN view.active ELSE activate]

\* switch-view to `target`: nothing when it is the active view, otherwise
\* the list being entered is refreshed and then made active.
SwitchView ==
    /\ ~panicked
    /\ \E target \in Views :
          /\ last' = Asked("switch", target, "none")
          /\ IF target = view.active
             THEN /\ calls' = <<>>
                  /\ UNCHANGED <<view, panicked>>
             ELSE RefreshList(target, <<>>, target)
    /\ UNCHANGED <<build, items, selected, running, result, entry>>

\* The mutation a request stands for in the active view, or "none".
VerbFor(active, req) ==
    CASE active = "Unstaged" /\ req = "stage"   -> "stage_to_index"
      [] active = "Unstaged" /\ req = "discard" -> "reset_from_workdir"
      [] active = "Staged"   /\ req = "unstage" -> "unstage_to_workdir"
      [] OTHER -> "none"

Mutation(verb, e, fsOut, out) ==
    CASE verb = "stage_to_index"     -> stage_to_index(e, out)
      [] verb = "reset_from_workdir" -> reset_from_workdir(e, fsOut, out)
      [] verb = "unstage_to_workdir" -> unstage_to_workdir(e, out)

\* stage / discard / unstage: rejected in the wrong view; otherwise
\* current()?.<mutation>(), then a refresh of the active list.
Request(req) ==
    /\ ~panicked
    /\ LET verb == VerbFor(view.active, req)
           l == ListOf(view, view.active)
           c == current(l.selected, l.items)
       IN  IF verb = "none"
           THEN /\ last' = Asked(req, "none", "none")
                /\ calls' = <<>>
                /\ UNCHANGED <<view, panicked>>
           ELSE IF c.panic
           THEN /\ last' = Asked(req, "none", "none")
                /\ calls' = <<>>
                /\ panicked' = TRUE
                /\ UNCHANGED view
           ELSE IF c.item = None
           THEN /\ last' = Asked(req, "none", "none")
                /\ calls' = <<>>
                /\ UNCHANGED <<view, panicked>>
           ELSE /\ last' = Asked(req, verb, l.origin)
                /\ \E out \in CmdOutcomes,
                      fsOut \in IF verb = "reset_from_workdir" THEN FsOutcomes ELSE {"ok"} :
                      RefreshList(view.active,
                                  Mutation(verb, c.item[1], fsOut, out).calls,
                                  view.active)
    /\ UNCHANGED <<build, items, selected, running, result, entry>>

StageRequest == Request("stage")
DiscardRequest == Request("discard")
UnstageRequest == Request("unstage")

\* move / clear-selection: delegated to the active list.
MoveRequest ==
    /\ ~panicked
    /\ \E op \in {"next", "previous", "unselect"} :
          LET l == ListOf(view, view.active)
              r == CASE op = "next" -> next_i(l.selected, Len(l.items))
                     [] op = "previous" -> previous_i(l.selected, Len(l.items))
                     [] op = "unselect" -> [panic |-> FALSE, sel |-> None]
          IN  /\ view' = WithList(view, view.active, [l EXCEPT !.selected = r.sel])
              /\ panicked' = r.panic
              /\ last' = Asked(op, "none", "none")
    /\ calls' = <<>>
    /\ UNCHANGED <<build, items, selected, running, result, entry>>

NextView ==
    SwitchView \/ StageRequest \/ DiscardRequest \/ UnstageRequest \/ MoveRequest

SpecView == InitView /\ [][NextView]_vars

(***************************************************************************)
(* Properties of the two-view controller (SpecView).                       *)
(***************************************************************************)
\* The comparison whose entries a call may act on.
CallOrigin(c) ==
    CASE c.prog = "fs::remove_file" -> "WorkdirVsIndex"
      [] c.prog = "git" /\ c.args \in {<<"add">>, <<"checkout">>} -> "WorkdirVsIndex"
      [] c.prog = "git" /\ c.args \in {<<"reset">>, <<"restore", "--staged">>} -> "IndexVsHead"
      [] OTHER -> "none"

Rejected(active, req) ==
    \/ active = "Unstaged" /\ req = "unstage"
    \/ active = "Staged" /\ req \in {"stage", "discard"}

====
